---- MODULE Spec2Model ----
(***************************************************************************)
(* Model of the Ice Cream Shop API backend (main.py, schemas.py).          *)
(*                                                                         *)
(* Documents are tagged values [t |-> tag, v |-> payload]:                 *)
(*   null, bool, num (prices in hundredths), str (a string),               *)
(*   oid (a bson ObjectId, by its integer value),                          *)
(*   list (a sequence of values),                                          *)
(*   dict (a sequence of <<key, value>> pairs with distinct keys, in       *)
(*         insertion order, as a Python dict keeps them).                  *)
(***************************************************************************)
EXTENDS Integers, Sequences, FiniteSets, TLC

VARIABLES
    db,         \* the store handle imported from database: "none" | "present"
    icecream,   \* the "icecream" collection: a sequence of documents
    order,      \* the "order" collection: a sequence of documents
    req,        \* per worker: the request it is handling and its locals
    seedLog,    \* history: the outcome of each finished seed call, in order
    doc,        \* ObjectIdEncoder.encode: the argument
    enc,        \* ObjectIdEncoder.encode(doc)
    enc2,       \* ObjectIdEncoder.encode(ObjectIdEncoder.encode(doc))
    stage       \* how many times encode has been applied (0, 1, 2)

vars == <<db, icecream, order, req, seedLog, doc, enc, enc2, stage>>

(***************************************************************************)
(* Bounds                                                                  *)
(***************************************************************************)
MaxLen == 2          \* longest list / dict drawn as an encode argument
MaxItems == 2        \* most items in a POST /api/orders payload
MaxOrders == 1       \* most documents the order collection is followed to
MaxSeedCalls == 3    \* most POST /api/flavors/seed calls followed
MaxErrLen == 52      \* longest exception text the store raises
MaxCollections == 12 \* most collection names the store lists
NumWorkers == 2      \* request handlers that may run at the same time

\* Program constants
ErrTextLimit == 50       \* str(e)[:50]
CollectionsLimit == 10   \* collections[:10]

(***************************************************************************)
(* Values                                                                  *)
(***************************************************************************)
Null == [t |-> "null", v |-> <<>>]
Bool(b) == [t |-> "bool", v |-> b]
Num(n) == [t |-> "num", v |-> n]
Str(s) == [t |-> "str", v |-> s]
Oid(n) == [t |-> "oid", v |-> n]
List(s) == [t |-> "list", v |-> s]
Dict(s) == [t |-> "dict", v |-> s]

IsOid(x) == x.t = "oid"
IsList(x) == x.t = "list"
IsDict(x) == x.t = "dict"

Min(a, b) == IF a <= b THEN a ELSE b

HexDigits == <<"0", "1", "2", "3", "4", "5", "6", "7",
               "8", "9", "a", "b", "c", "d", "e", "f">>

RECURSIVE ToHex(_, _)
ToHex(n, width) ==
    IF width = 0 THEN ""
    ELSE ToHex(n \div 16, width - 1) \o HexDigits[(n % 16) + 1]

\* str(ObjectId): the 24 hexadecimal digits of the 12-byte identifier.
ObjectIdStr(o) == Str(ToHex(o.v, 24))

(***************************************************************************)
(* ObjectIdEncoder.encode                                                  *)
(***************************************************************************)
RECURSIVE encode(_)
RECURSIVE EncodeItemStringifyAll(_)
RECURSIVE EncodeItem(_)

\* str(v) of a scalar.
StrOf(v) ==
    IF IsOid(v) THEN ObjectIdStr(v)
    ELSE IF v.t = "null" THEN Str("None")
    ELSE IF v.t = "num" THEN Str(ToString(v.v))
    ELSE IF v.t = "bool" THEN Str(IF v.v THEN "True" ELSE "False")
    ELSE v

\* A bug: the isinstance(v, ObjectId) test is lost and every value that is not a
\* container is str()'d.
EncodeItemStringifyAll(v) ==
    IF IsList(v) \/ IsDict(v) THEN encode(v) ELSE StrOf(v)

\* The body of `for k, v in doc.items()`: the new value stored under k.
EncodeItem(v) ==
    IF IsOid(v) THEN ObjectIdStr(v)
    ELSE IF IsList(v) \/ IsDict(v) THEN encode(v)
    ELSE v

encode(d) ==
    IF IsList(d) THEN List([i \in 1..Len(d.v) |-> encode(d.v[i])])
    ELSE IF IsDict(d) THEN
        Dict([i \in 1..Len(d.v) |-> <<d.v[i][1], EncodeItem(d.v[i][2])>>])
    ELSE d

(***************************************************************************)
(* Arguments of encode                                                     *)
(***************************************************************************)
Atoms == {Null, Str("a"), Num(1), Oid(171)}
Keys == {"_id", "tags", "n"}

SeqsUpTo(S, n) == UNION {[1..k -> S] : k \in 0..n}

ListsOver(S) == {List(s) : s \in SeqsUpTo(S, MaxLen)}

KeySeqs == {ks \in SeqsUpTo(Keys, MaxLen) :
               \A i, j \in 1..Len(ks) : i # j => ks[i] # ks[j]}

DictsOver(S) ==
    UNION {{Dict([i \in 1..Len(ks) |-> <<ks[i], vs[i]>>]) :
               vs \in [1..Len(ks) -> S]} : ks \in KeySeqs}

Flat == Atoms \cup ListsOver(Atoms) \cup DictsOver(Atoms)

Nested(S) ==
    S \cup {List(<<x>>) : x \in S}
      \cup {List(<<Oid(171), x>>) : x \in S}
      \cup {Dict(<< <<"n", x>> >>) : x \in S}
      \cup {Dict(<< <<"_id", Oid(171)>>, <<"n", x>> >>) : x \in S}

Docs == Nested(Nested(Flat))

(***************************************************************************)
(* schemas.py                                                              *)
(***************************************************************************)
\* A bug: the upper bound of scoops is dropped.
OrderItemValidNoUpper(item) == item.scoops >= 1 /\ item.price >= 0

\* OrderItem: scoops: int = Field(..., ge=1, le=5); price: float = Field(..., ge=0)
OrderItemValid(item) ==
    /\ item.scoops >= 1
    /\ item.scoops <= 5
    /\ item.price >= 0

\* CreateOrder: items: List[OrderItem], validated by the framework before the
\* handler runs.
CreateOrderValid(payload) ==
    \A i \in 1..Len(payload.items) : OrderItemValid(payload.items[i])

\* Order: items: List[OrderItem]; total: float = Field(..., ge=0)
OrderValid(o) ==
    /\ \A i \in 1..Len(o.items) : OrderItemValid(o.items[i])
    /\ o.total >= 0

(***************************************************************************)
(* database: the document store gateway                                    *)
(***************************************************************************)
\* The identity the store assigns to the next document of a collection.
NewId(coll) == Oid(Len(coll) + 1)

\* create_document(collection_name, data): the collection after the insert.
\* data is a dict value (the seed flavors) or a model (an Order).
Inserted(coll, data) ==
    IF "t" \in DOMAIN data
    THEN Append(coll, Dict(Append(data.v, <<"_id", NewId(coll)>>)))
    ELSE Append(coll, [k \in DOMAIN data \cup {"_id"} |->
                          IF k = "_id" THEN NewId(coll) ELSE data[k]])

\* create_document's return value: the new identity as a string.
InsertedId(coll) == ObjectIdStr(NewId(coll)).v

\* get_documents(collection_name): every document, in store order.
get_documents(coll) == List(coll)

(***************************************************************************)
(* Requests                                                                *)
(***************************************************************************)
Workers == 1..NumWorkers

NoResp == [status |-> 0]

Idle == [ep |-> "none", pc |-> "idle", payload |-> <<>>, existing |-> 0,
         i |-> 0, inserted |-> 0, calls |-> 0, resp |-> NoResp,
         snap |-> <<>>]

\* The worker picks up a request for endpoint ep: its locals are fresh, and
\* snap remembers the store as the request found it.
Accepted(ep, payload) ==
    [Idle EXCEPT !.ep = ep, !.payload = payload, !.snap = <<icecream, order>>]

Done(q, resp) == [q EXCEPT !.pc = "done", !.resp = resp]

ServerError == [status |-> 500]

EncoderIdle == doc = Null /\ enc = Null /\ enc2 = Null /\ stage = 0

EncoderUnchanged == UNCHANGED <<doc, enc, enc2, stage>>

\* The framework has sent the response; the worker is free again.
Respond(r) ==
    /\ req[r].pc = "done"
    /\ req' = [req EXCEPT ![r] = Idle]
    /\ UNCHANGED <<db, icecream, order, seedLog>>
    /\ EncoderUnchanged

(***************************************************************************)
(* GET / and GET /api/animation                                            *)
(***************************************************************************)
read_root(r) ==
    /\ req[r].pc = "idle"
    /\ req' = [req EXCEPT ![r] =
                  Done(Accepted("root", <<>>),
                       [status |-> 200,
                        body |-> [message |-> "Ice Cream Shop Backend is running"]])]
    /\ UNCHANGED <<db, icecream, order, seedLog>>
    /\ EncoderUnchanged

get_animation_config(r) ==
    /\ req[r].pc = "idle"
    /\ req' = [req EXCEPT ![r] =
                  Done(Accepted("animation", <<>>),
                       [status |-> 200,
                        body |-> [hero |-> "hero", card |-> "card",
                                  button |-> "button"]])]
    /\ UNCHANGED <<db, icecream, order, seedLog>>
    /\ EncoderUnchanged

(***************************************************************************)
(* GET /test                                                               *)
(***************************************************************************)
Take(s, n) == SubSeq(s, 1, Min(n, Len(s)))

\* An exception text of n characters, and a listing of n collection names.
ErrText(n) == [i \in 1..n |-> 97 + (i % 26)]
CollectionNames(n) == [i \in 1..n |-> i]

ErrTexts == {ErrText(n) : n \in {0, ErrTextLimit - 1, ErrTextLimit,
                                  ErrTextLimit + 1, MaxErrLen}}
Listings == {CollectionNames(n) : n \in {0, 2, CollectionsLimit,
                                         CollectionsLimit + 1, MaxCollections}}

\* What the store does to this request: whether DATABASE_URL is set, what db.name
\* does ("has": returns the name, "missing": hasattr is False, "raises"), what
\* db.list_collection_names() does, the text of whatever is raised, and the names
\* listed.
TestEnvs ==
    [envSet : BOOLEAN, name : {"has", "missing", "raises"},
     list : {"ok", "raises"}, err : ErrTexts, colls : Listings]

TestResponse0 ==
    [backend |-> "Running",
     database |-> [text |-> "Not Available", err |-> <<>>],
     database_url |-> "None",
     database_name |-> "None",
     connection_status |-> "Not Connected",
     collections |-> <<>>]

\* A bug: the outer try/except is missing, so what db.name raises escapes.
test_database_no_outer_try(dbh, e) ==
    LET r1 == [TestResponse0 EXCEPT
                  !.database = [text |-> "Available", err |-> <<>>],
                  !.database_url = IF e.envSet THEN "Set" ELSE "Not Set"]
        r2 == [r1 EXCEPT
                  !.database_name = IF e.name = "has" THEN "icecreamshop"
                                    ELSE "Connected",
                  !.connection_status = "Connected"]
    IN  IF dbh = "none"
        THEN [raised |-> FALSE, calls |-> 0,
              response |-> [TestResponse0 EXCEPT
                  !.database = [text |-> "Available but not initialized",
                                err |-> <<>>]]]
        ELSE IF e.name = "raises"
        THEN [raised |-> TRUE, calls |-> 0, response |-> r1]
        ELSE IF e.list = "raises"
        THEN [raised |-> FALSE, calls |-> 1,
              response |-> [r2 EXCEPT
                  !.database = [text |-> "Connected but Error: ",
                                err |-> Take(e.err, ErrTextLimit)]]]
        ELSE [raised |-> FALSE, calls |-> 1,
              response |-> [r2 EXCEPT
                  !.collections = Take(e.colls, CollectionsLimit),
                  !.database = [text |-> "Connected & Working", err |-> <<>>]]]

\* test_database(): whether an exception leaves the handler, the store calls
\* made, and the response.
test_database(dbh, e) ==
    LET r1 == [TestResponse0 EXCEPT
                  !.database = [text |-> "Available", err |-> <<>>],
                  !.database_url = IF e.envSet THEN "Set" ELSE "Not Set"]
        r2 == [r1 EXCEPT
                  !.database_name = IF e.name = "has" THEN "icecreamshop"
                                    ELSE "Connected",
                  !.connection_status = "Connected"]
    IN  IF dbh = "none"
        THEN [raised |-> FALSE, calls |-> 0,
              response |-> [TestResponse0 EXCEPT
                  !.database = [text |-> "Available but not initialized",
                                err |-> <<>>]]]
        ELSE IF e.name = "raises"
        THEN \* the outer except
             [raised |-> FALSE, calls |-> 0,
              response |-> [r1 EXCEPT
                  !.database = [text |-> "Error: ",
                                err |-> Take(e.err, ErrTextLimit)]]]
        ELSE IF e.list = "raises"
        THEN \* the inner except
             [raised |-> FALSE, calls |-> 1,
              response |-> [r2 EXCEPT
                  !.database = [text |-> "Connected but Error: ",
                                err |-> Take(e.err, ErrTextLimit)]]]
        ELSE [raised |-> FALSE, calls |-> 1,
              response |-> [r2 EXCEPT
                  !.collections = Take(e.colls, CollectionsLimit),
                  !.database = [text |-> "Connected & Working", err |-> <<>>]]]

get_test(r) ==
    /\ req[r].pc = "idle"
    /\ \E e \in TestEnvs :
          LET t == test_database(db, e)
              q == [Accepted("test", e) EXCEPT !.calls = t.calls]
          IN  req' = [req EXCEPT ![r] =
                         Done(q, IF t.raised THEN ServerError
                                 ELSE [status |-> 200, body |-> t.response])]
    /\ UNCHANGED <<db, icecream, order, seedLog>>
    /\ EncoderUnchanged

(***************************************************************************)
(* GET /api/flavors                                                        *)
(***************************************************************************)
\* A bug: the handler counts the documents before it fetches them.
get_flavors_counting_first(r) ==
    /\ req[r].pc = "idle"
    /\ LET q == [Accepted("flavors", <<>>) EXCEPT !.calls = 2]
       IN  req' = [req EXCEPT ![r] =
                      IF db = "none" THEN Done(q, ServerError)
                      ELSE Done(q, [status |-> 200,
                                    body |-> encode(get_documents(icecream))])]
    /\ UNCHANGED <<db, icecream, order, seedLog>>
    /\ EncoderUnchanged

\* get_documents("icecream"), then ObjectIdEncoder.encode. Without a store the
\* gateway raises, which leaves the handler as a server error.
get_flavors(r) ==
    /\ req[r].pc = "idle"
    /\ LET q == [Accepted("flavors", <<>>) EXCEPT !.calls = 1]
       IN  req' = [req EXCEPT ![r] =
                      IF db = "none" THEN Done(q, ServerError)
                      ELSE Done(q, [status |-> 200,
                                    body |-> encode(get_documents(icecream))])]
    /\ UNCHANGED <<db, icecream, order, seedLog>>
    /\ EncoderUnchanged

\* The store raises in get_documents.
get_flavors_store_raises(r) ==
    /\ req[r].pc = "idle"
    /\ db = "present"
    /\ req' = [req EXCEPT ![r] =
                  Done([Accepted("flavors", <<>>) EXCEPT !.calls = 1],
                       ServerError)]
    /\ UNCHANGED <<db, icecream, order, seedLog>>
    /\ EncoderUnchanged

(***************************************************************************)
(* POST /api/flavors/seed                                                  *)
(***************************************************************************)
Flavor(name, description, price, tags, image) ==
    Dict(<< <<"name", Str(name)>>,
            <<"description", Str(description)>>,
            <<"price", Num(price)>>,
            <<"tags", List(<<Str(tags[1]), Str(tags[2])>>)>>,
            <<"image", Str(image)>>,
            <<"is_available", Bool(TRUE)>> >>)

seed ==
    << Flavor("Vanilla Bean",
              "Classic Madagascar vanilla with real bean specks", 350,
              <<"classic", "creamy">>,
              "https://images.unsplash.com/photo-1563805042-7684c019e1cb"),
       Flavor("Dark Chocolate", "70% cocoa, rich and indulgent", 375,
              <<"chocolate", "rich">>,
              "https://images.unsplash.com/photo-1551024601-bec78aea704b"),
       Flavor("Strawberry Swirl", "Fresh strawberries and ribbons of jam", 375,
              <<"fruit", "fresh">>,
              "https://images.unsplash.com/photo-1497051788611-2c64812349b4"),
       Flavor("Mint Choco Chip", "Cool mint with dark chocolate chunks", 375,
              <<"mint", "choco">>,
              "https://images.unsplash.com/photo-1625944528146-0f4fee2f8559") >>

SeedInFlight(r) == req[r].ep = "seed" /\ req[r].pc = "insert"

SeedCallsStarted == Len(seedLog) + Cardinality({r \in Workers : SeedInFlight(r)})

SeedFailed == [status |-> 500]

\* A bug: the `if existing > 0: return` is missing.
seed_flavors_no_early_return(r) ==
    /\ req[r].pc = "idle"
    /\ SeedCallsStarted < MaxSeedCalls
    /\ LET existing == IF db = "present" THEN Len(icecream) ELSE 0
           q == [Accepted("seed", <<>>) EXCEPT
                    !.existing = existing,
                    !.calls = IF db = "present" THEN 1 ELSE 0]
       IN  /\ req' = [req EXCEPT ![r] = [q EXCEPT !.pc = "insert"]]
           /\ seedLog' = seedLog
    /\ UNCHANGED <<db, icecream, order>>
    /\ EncoderUnchanged

\* seed_flavors, lines 119-121: count the flavors (no store call without a
\* store handle) and return 0 at once if there are any.
seed_flavors(r) ==
    /\ req[r].pc = "idle"
    /\ SeedCallsStarted < MaxSeedCalls
    /\ LET existing == IF db = "present" THEN Len(icecream) ELSE 0
           q == [Accepted("seed", <<>>) EXCEPT
                    !.existing = existing,
                    !.calls = IF db = "present" THEN 1 ELSE 0]
       IN  IF existing > 0
           THEN /\ req' = [req EXCEPT ![r] =
                              Done(q, [status |-> 200,
                                       body |-> [inserted |-> 0]])]
                /\ seedLog' = Append(seedLog, 0)
           ELSE /\ req' = [req EXCEPT ![r] = [q EXCEPT !.pc = "insert"]]
                /\ seedLog' = seedLog
    /\ UNCHANGED <<db, icecream, order>>
    /\ EncoderUnchanged

\* The store raises in count_documents.
seed_count_store_raises(r) ==
    /\ req[r].pc = "idle"
    /\ SeedCallsStarted < MaxSeedCalls
    /\ db = "present"
    /\ req' = [req EXCEPT ![r] =
                  Done([Accepted("seed", <<>>) EXCEPT !.calls = 1], SeedFailed)]
    /\ seedLog' = Append(seedLog, -1)
    /\ UNCHANGED <<db, icecream, order>>
    /\ EncoderUnchanged

\* One turn of `for doc in seed`: create_document("icecream", doc); inserted += 1.
\* Without a store the gateway raises and the exception leaves the handler.
seed_insert(r) ==
    /\ SeedInFlight(r)
    /\ req[r].i < Len(seed)
    /\ LET q == [req[r] EXCEPT !.calls = @ + 1]
       IN  IF db = "none"
           THEN /\ req' = [req EXCEPT ![r] = Done(q, SeedFailed)]
                /\ seedLog' = Append(seedLog, -1)
                /\ UNCHANGED icecream
           ELSE /\ icecream' = Inserted(icecream, seed[req[r].i + 1])
                /\ req' = [req EXCEPT ![r] =
                              [q EXCEPT !.i = @ + 1, !.inserted = @ + 1]]
                /\ seedLog' = seedLog
    /\ UNCHANGED <<db, order>>
    /\ EncoderUnchanged

\* The store raises in create_document: nothing catches it, the documents
\* inserted by the earlier turns stay.
seed_insert_store_raises(r) ==
    /\ SeedInFlight(r)
    /\ req[r].i < Len(seed)
    /\ db = "present"
    /\ req' = [req EXCEPT ![r] =
                  Done([req[r] EXCEPT !.calls = @ + 1], SeedFailed)]
    /\ seedLog' = Append(seedLog, -1)
    /\ UNCHANGED <<db, icecream, order>>
    /\ EncoderUnchanged

\* return SeedResponse(inserted=inserted)
seed_return(r) ==
    /\ SeedInFlight(r)
    /\ req[r].i = Len(seed)
    /\ req' = [req EXCEPT ![r] =
                  Done(req[r], [status |-> 200,
                                body |-> [inserted |-> req[r].inserted]])]
    /\ seedLog' = Append(seedLog, req[r].inserted)
    /\ UNCHANGED <<db, icecream, order>>
    /\ EncoderUnchanged

(***************************************************************************)
(* POST /api/orders                                                        *)
(***************************************************************************)
Item(scoops, price) ==
    [flavor_id |-> "1", name |-> "Vanilla Bean", scoops |-> scoops,
     price |-> price]

CreateOrder(items) ==
    [customer_name |-> "Ada", customer_phone |-> "555-0100", items |-> items,
     notes |-> "None"]

\* Scoops at and around both bounds, prices at and around zero.
ItemPool ==
    {Item(0, 350), Item(1, 0), Item(5, 350), Item(6, 350), Item(2, -1)}

OrderRequests == {CreateOrder(its) : its \in SeqsUpTo(ItemPool, MaxItems)}

SampleOrderRequests ==
    {CreateOrder(<<>>), CreateOrder(<<Item(2, 350)>>),
     CreateOrder(<<Item(6, 350)>>)}

RECURSIVE SumOfPrices(_)
\* A bug: the scoop count is left out of the sum.
SumOfPrices(items) ==
    IF items = <<>> THEN 0
    ELSE SumOfPrices(SubSeq(items, 1, Len(items) - 1)) + items[Len(items)].price

RECURSIVE ComputeTotal(_)
\* sum(item.price * item.scoops for item in payload.items)
ComputeTotal(items) ==
    IF items = <<>> THEN 0
    ELSE ComputeTotal(SubSeq(items, 1, Len(items) - 1))
            + items[Len(items)].price * items[Len(items)].scoops

\* Order(customer_name=..., customer_phone=..., items=..., total=..., notes=...)
Order(payload, total) ==
    [customer_name |-> payload.customer_name,
     customer_phone |-> payload.customer_phone,
     items |-> payload.items,
     total |-> total,
     notes |-> payload.notes]

\* The framework validates the body as CreateOrder (a validation failure is
\* answered 422 and the handler never runs); the handler computes the total,
\* builds the Order, inserts it and answers with the identity and the total.
create_order_endpoint(r, payload) ==
    /\ req[r].pc = "idle"
    /\ LET q == Accepted("orders", payload)
           total == ComputeTotal(payload.items)
           order_doc == Order(payload, total)
       IN  IF ~CreateOrderValid(payload)
           THEN /\ req' = [req EXCEPT ![r] = Done(q, [status |-> 422])]
                /\ UNCHANGED order
           ELSE IF ~OrderValid(order_doc)
           THEN /\ req' = [req EXCEPT ![r] = Done(q, ServerError)]
                /\ UNCHANGED order
           ELSE IF db = "none"
           THEN /\ req' = [req EXCEPT ![r] =
                              Done([q EXCEPT !.calls = 1], ServerError)]
                /\ UNCHANGED order
           ELSE /\ Len(order) < MaxOrders
                /\ order' = Inserted(order, order_doc)
                /\ req' = [req EXCEPT ![r] =
                              Done([q EXCEPT !.calls = 1],
                                   [status |-> 200,
                                    body |-> [order_id |-> InsertedId(order),
                                              total |-> total]])]
    /\ UNCHANGED <<db, icecream, seedLog>>
    /\ EncoderUnchanged

\* The store raises in create_document.
create_order_store_raises(r, payload) ==
    /\ req[r].pc = "idle"
    /\ db = "present"
    /\ CreateOrderValid(payload)
    /\ OrderValid(Order(payload, ComputeTotal(payload.items)))
    /\ req' = [req EXCEPT ![r] =
                  Done([Accepted("orders", payload) EXCEPT !.calls = 1],
                       ServerError)]
    /\ UNCHANGED <<db, icecream, order, seedLog>>
    /\ EncoderUnchanged

(***************************************************************************)
(* ObjectIdEncoder.encode, applied once and applied again                  *)
(***************************************************************************)
Encode ==
    /\ stage = 0
    /\ enc' = encode(doc)
    /\ stage' = 1
    /\ UNCHANGED <<db, icecream, order, req, seedLog, doc, enc2>>

EncodeAgain ==
    /\ stage = 1
    /\ enc2' = encode(enc)
    /\ stage' = 2
    /\ UNCHANGED <<db, icecream, order, req, seedLog, doc, enc>>

(***************************************************************************)
(* Specifications                                                          *)
(***************************************************************************)
StoreEmpty == icecream = <<>> /\ order = <<>> /\ seedLog = <<>>

AllIdle == req = [r \in Workers |-> Idle]

\* The server, one request at a time; the store handle may be missing and any
\* store call may raise.
Init ==
    /\ db \in {"none", "present"}
    /\ StoreEmpty
    /\ AllIdle
    /\ EncoderIdle

Next ==
    \E r \in {1} :
        \/ read_root(r)
        \/ get_animation_config(r)
        \/ get_test(r)
        \/ get_flavors(r)
        \/ get_flavors_store_raises(r)
        \/ seed_flavors(r)
        \/ seed_count_store_raises(r)
        \/ seed_insert(r)
        \/ seed_insert_store_raises(r)
        \/ seed_return(r)
        \/ \E p \in SampleOrderRequests : create_order_endpoint(r, p)
        \/ \E p \in SampleOrderRequests : create_order_store_raises(r, p)
        \/ Respond(r)

Spec == Init /\ [][Next]_vars

\* POST /api/orders alone, over every body of up to MaxItems pool items.
NextOrders ==
    \E r \in {1} :
        \/ \E p \in OrderRequests : create_order_endpoint(r, p)
        \/ \E p \in OrderRequests : create_order_store_raises(r, p)
        \/ Respond(r)

SpecOrders == Init /\ [][NextOrders]_vars

\* Seed requests handled by several workers at once (FastAPI runs a plain
\* `def` handler in a thread pool), against a store that works.
InitConc == Init /\ db = "present"

NextConc ==
    \E r \in Workers :
        \/ seed_flavors(r)
        \/ seed_insert(r)
        \/ seed_return(r)
        \/ Respond(r)

SpecConc == InitConc /\ [][NextConc]_vars

\* ObjectIdEncoder.encode over the bounded documents.
InitEncode ==
    /\ db = "none"
    /\ StoreEmpty
    /\ AllIdle
    /\ doc \in Docs
    /\ enc = Null
    /\ enc2 = Null
    /\ stage = 0

NextEncode == Encode \/ EncodeAgain

SpecEncode == InitEncode /\ [][NextEncode]_vars

(***************************************************************************)
(* Properties                                                              *)
(***************************************************************************)
Finished(r, ep) == req[r].ep = ep /\ req[r].pc = "done"

NoSeedInFlight == \A r \in Workers : ~SeedInFlight(r)

NoSeedFailure == \A i \in 1..Len(seedLog) : seedLog[i] # -1

RECURSIVE SumSeq(_)
SumSeq(s) == IF s = <<>> THEN 0 ELSE s[1] + SumSeq(Tail(s))

RECURSIVE SumPriceScoopsFrom(_, _)
SumPriceScoopsFrom(items, k) ==
    IF k > Len(items) THEN 0
    ELSE items[k].price * items[k].scoops + SumPriceScoopsFrom(items, k + 1)

IsPrefix(s, t) == Len(s) <= Len(t) /\ \A i \in 1..Len(s) : s[i] = t[i]

RECURSIVE HasOid(_)
\* An identifier occurs somewhere in x.
HasOid(x) ==
    IF IsOid(x) THEN TRUE
    ELSE IF IsList(x) THEN \E i \in 1..Len(x.v) : HasOid(x.v[i])
    ELSE IF IsDict(x) THEN \E i \in 1..Len(x.v) : HasOid(x.v[i][2])
    ELSE FALSE

RECURSIVE Preserves(_, _)
\* y has the structure of x: the same lists in the same order, the same maps
\* with the same keys in the same order, the same scalars; an identifier of x
\* is, in y, itself or its string form.
Preserves(x, y) ==
    IF IsList(x)
    THEN /\ IsList(y)
         /\ Len(y.v) = Len(x.v)
         /\ \A i \in 1..Len(x.v) : Preserves(x.v[i], y.v[i])
    ELSE IF IsDict(x)
    THEN /\ IsDict(y)
         /\ Len(y.v) = Len(x.v)
         /\ \A i \in 1..Len(x.v) :
               /\ y.v[i][1] = x.v[i][1]
               /\ Preserves(x.v[i][2], y.v[i][2])
    ELSE IF IsOid(x) THEN y = x \/ y = ObjectIdStr(x)
    ELSE y = x

\* C1: in a sequence of sequential seed calls against a store that starts empty
\* and never fails, the first call reports inserted = 4, every later call
\* reports inserted = 0, and from the first call's return on the flavor
\* collection holds exactly 4 documents.
C1_SeedIdempotent ==
    NoSeedFailure =>
        /\ \A i \in 1..Len(seedLog) : seedLog[i] = IF i = 1 THEN 4 ELSE 0
        /\ Len(seedLog) >= 1 => Len(icecream) = 4
        /\ \A r \in Workers :
              Finished(r, "seed") =>
                  /\ req[r].resp.status = 200
                  /\ req[r].resp.body.inserted = seedLog[Len(seedLog)]

C1_Witness ==
    /\ NoSeedFailure
    /\ seedLog = <<4, 0>>
    /\ Finished(1, "seed")
    /\ req[1].resp.body.inserted = 0
    /\ Len(icecream) = 4

\* C2: for every accepted POST /api/orders, the total of the response is the
\* sum over the items of price * scoops, and the document just stored carries
\* that same total, the request's items and the identity the response names.
C2_TotalIsSum ==
    \A r \in Workers :
        (Finished(r, "orders") /\ req[r].resp.status = 200) =>
            /\ req[r].resp.body.total =
                    SumPriceScoopsFrom(req[r].payload.items, 1)
            /\ Len(order) = Len(req[r].snap[2]) + 1
            /\ order[Len(order)].total = req[r].resp.body.total
            /\ order[Len(order)].items = req[r].payload.items
            /\ ObjectIdStr(order[Len(order)]._id).v = req[r].resp.body.order_id

C2_Witness ==
    /\ Finished(1, "orders")
    /\ req[1].resp.status = 200
    /\ req[1].payload.items = <<Item(5, 350), Item(5, 350)>>
    /\ req[1].resp.body.total = 3500
    /\ order[1].total = 3500

\* C3: POST /api/orders is accepted only if every item has 1 <= scoops <= 5
\* and price >= 0; a request breaking a bound is answered 422 with no store
\* call made and the order collection as the request found it; the bounds
\* themselves (scoops 1 and 5, price 0) are not rejected.
C3_BoundsEnforced ==
    \A r \in Workers :
        Finished(r, "orders") =>
            LET its == req[r].payload.items
                inBounds == \A i \in 1..Len(its) :
                                /\ its[i].scoops \in 1..5
                                /\ its[i].price >= 0
            IN  /\ req[r].resp.status = 200 => inBounds
                /\ ~inBounds => /\ req[r].resp.status = 422
                                /\ req[r].calls = 0
                                /\ order = req[r].snap[2]
                /\ inBounds => req[r].resp.status # 422

C3_Witness ==
    /\ Finished(1, "orders")
    /\ req[1].payload.items = <<Item(5, 350), Item(6, 350)>>
    /\ req[1].resp.status = 422
    /\ Len(order) = 1
    /\ order = req[1].snap[2]

\* C4: every document of the order collection has at least one item, and a
\* request with an empty items list is rejected.
C4_OrderItemsNonEmpty ==
    /\ \A i \in 1..Len(order) : Len(order[i].items) >= 1
    /\ \A r \in Workers :
          (Finished(r, "orders") /\ req[r].payload.items = <<>>) =>
              req[r].resp.status = 422

\* C5: no identifier remains anywhere in encode's result, which otherwise has
\* the structure of the argument.
C5_NoIdentifierRemains ==
    stage >= 1 => ~HasOid(enc) /\ Preserves(doc, enc)

\* C6: encode(encode(x)) = encode(x), and encode(x) keeps the order of every
\* list, the keys and key order of every map, and every value that is not an
\* identifier.
C6_IdempotentOrderPreserving ==
    /\ stage >= 1 => Preserves(doc, enc)
    /\ stage = 2 => enc2 = enc

C6_Witness ==
    /\ stage = 2
    /\ doc = List(<<Dict(<< <<"_id", Oid(171)>>,
                            <<"n", List(<<Str("a"), Num(1)>>)>> >>)>>)
    /\ enc = List(<<Dict(<< <<"_id", Str("0000000000000000000000ab")>>,
                            <<"n", List(<<Str("a"), Num(1)>>)>> >>)>>)
    /\ enc2 = enc

\* C7: GET /test always answers 200 with the diagnostic object: a missing
\* handle, a raising db.name and a raising list_collection_names show only as
\* the text of the database field, with at most 50 characters of the exception
\* text; collections holds at most the first 10 names; the store is as the
\* request found it.
C7_TestNeverFails ==
    \A r \in Workers :
        Finished(r, "test") =>
            LET e == req[r].payload
                b == req[r].resp.body
            IN  /\ req[r].resp.status = 200
                /\ Len(b.collections) <= 10
                /\ IsPrefix(b.collections, e.colls)
                /\ Len(b.database.err) <= 50
                /\ IsPrefix(b.database.err, e.err)
                /\ db = "none" =>
                      b.database.text = "Available but not initialized"
                /\ (db = "present" /\ e.name = "raises") =>
                      b.database.text = "Error: "
                /\ (db = "present" /\ e.name # "raises" /\ e.list = "raises") =>
                      b.database.text = "Connected but Error: "
                /\ (db = "present" /\ e.name # "raises" /\ e.list = "ok") =>
                      /\ b.database.text = "Connected & Working"
                      /\ Len(b.collections) = Min(Len(e.colls), 10)
                /\ <<icecream, order>> = req[r].snap

C7_Witness ==
    /\ Finished(1, "test")
    /\ db = "present"
    /\ req[1].payload.name = "raises"
    /\ Len(req[1].payload.err) = 52
    /\ req[1].resp.status = 200
    /\ Len(req[1].resp.body.database.err) = 50
    /\ Len(icecream) = 4

\* C8 as stated: no request makes more than one store call.
C8_AtMostOneStoreCall ==
    \A r \in Workers : req[r].calls <= 1

\* C8, amended: a request to any endpoint but POST /api/flavors/seed makes at
\* most one store call; a seed request makes at most 5 (the count and one
\* insert per demo flavor), and at most one when the count is above 0.
C8_StoreCallsPerRequest ==
    \A r \in Workers :
        /\ req[r].ep # "seed" => req[r].calls <= 1
        /\ req[r].ep = "seed" =>
              /\ req[r].calls <= 5
              /\ req[r].existing > 0 => req[r].calls <= 1

C8_Witness ==
    /\ Finished(1, "seed")
    /\ req[1].resp.status = 200
    /\ req[1].calls = 5

\* C9: whenever no seed call is running the flavor collection holds 0 or 4
\* documents, and a finished seed call has added 0 or 4.
C9_SeedNeverPartial ==
    /\ NoSeedInFlight => Len(icecream) \in {0, 4}
    /\ \A r \in Workers :
          Finished(r, "seed") =>
              Len(icecream) - Len(req[r].snap[1]) \in {0, 4}

\* C10: once every concurrent seed call has returned, the flavor collection
\* holds exactly 4 documents and the reported inserted counts sum to 4.
C10_ConcurrentSeedExact ==
    (NoSeedInFlight /\ Len(seedLog) >= 1) =>
        /\ Len(icecream) = 4
        /\ SumSeq(seedLog) = 4

====
